---- MODULE Spec2Model ----
(***************************************************************************)
(* A model of dependencyDiscoverer.cpp: the concurrent crawler that scans  *)
(* C/yacc/lex sources for #include "..." lines, and the breadth-first      *)
(* printer of the dependency table.                                        *)
(*                                                                         *)
(* Strings are sequences of one-character strings, so that the string      *)
(* operations of the program (concatenation of a directory and a name,     *)
(* rfind('.'), the split of CPATH at ':', the scan of a line) are computed *)
(* character by character, as the program computes them.                   *)
(***************************************************************************)
EXTENDS Integers, Sequences, FiniteSets, Bags, TLC

\* ------------------------------------------------------------------ bounds
\* The largest pool size CRAWLER_THREADS asks for.
MaxThreads == 2

\* --------------------------------------------------------------- constants
\* char buf[4096]: fgets stores at most BufSize - 1 characters of a line.
BufSize == 4096
\* number_of_threads when CRAWLER_THREADS is not set.
DefaultThreads == 2

\* A null pointer: a value no string of the program equals.
NULL == <<"NULL">>
\* The terminating '\0' of a C string, read when p runs to the end of buf.
NUL == "NUL"
QUOTE == "\""

\* ----------------------------------------------------------------- strings
Last(s) == s[Len(s)]

\* "#include", the 8 characters strncmp compares.
INCLUDE == <<"#", "i", "n", "c", "l", "u", "d", "e">>

\* isspace() in the C locale (of the characters the files here use).
IsSpace(c) == c \in {" ", "\t", "\n", "\r", "\f"}

\* *p for a pointer p (1-based) into the NUL-terminated string buf.
CharAt(buf, p) == IF p <= Len(buf) THEN buf[p] ELSE NUL

\* while (isspace(*p)) p++;
RECURSIVE SkipSpace(_, _)
SkipSpace(buf, p) ==
    IF IsSpace(CharAt(buf, p)) THEN SkipSpace(buf, p + 1) ELSE p

\* strncmp(p, "#include", 8) == 0
MatchInclude(buf, p) ==
    /\ p + 7 <= Len(buf)
    /\ SubSeq(buf, p, p + 7) = INCLUDE

\* while (*p != '\0') { if (*p == '"') break; *q++ = *p++; }  *q = '\0';
RECURSIVE CollectName(_, _)
CollectName(buf, p) ==
    IF CharAt(buf, p) = NUL \/ CharAt(buf, p) = QUOTE
    THEN <<>>
    ELSE <<CharAt(buf, p)>> \o CollectName(buf, p + 1)

\* ScanLine with the test of the opening quote also passed by '<'.
ScanLineAnyOpener(buf) ==
    LET p1 == SkipSpace(buf, 1)
        p2 == SkipSpace(buf, p1 + 8)
    IN  IF ~MatchInclude(buf, p1) THEN NULL
        ELSE IF CharAt(buf, p2) \notin {QUOTE, "<"} THEN NULL
        ELSE CollectName(buf, p2 + 1)

\* The body of the fgets loop of process up to bs.wait(): NULL when the line
\* is skipped (continue), else the collected name.
ScanLine(buf) ==
    LET p1 == SkipSpace(buf, 1)
        p2 == SkipSpace(buf, p1 + 8)
    IN  IF ~MatchInclude(buf, p1) THEN NULL
        ELSE IF CharAt(buf, p2) # QUOTE THEN NULL
        ELSE CollectName(buf, p2 + 1)

\* The length of what fgets(buf, sizeof(buf), fd) stores, reading content
\* from position pos: up to and including the next newline, at most
\* BufSize - 1 characters, to the end of the file.
RECURSIVE LineLen(_, _, _)
LineLen(content, pos, n) ==
    IF pos + n > Len(content) \/ n >= BufSize - 1 THEN n
    ELSE IF content[pos + n] = "\n" THEN n + 1
    ELSE LineLen(content, pos, n + 1)

\* fgets: NULL at end of file, else the line stored in buf.
Fgets(content, pos) ==
    IF pos > Len(content) THEN NULL
    ELSE SubSeq(content, pos, pos + LineLen(content, pos, 0) - 1)

\* std::string dirName(const char*): appends '/' unless it ends the string.
DirName(s) == IF Last(s) # "/" THEN s \o <<"/">> ELSE s

\* file.rfind('.'): the greatest position holding '.', 0 for npos.
RECURSIVE RFindDot(_, _)
RFindDot(file, j) ==
    IF j = 0 THEN 0
    ELSE IF file[j] = "." THEN j
    ELSE RFindDot(file, j - 1)

\* parseFile: <<root, extension>>.
parseFile(file) ==
    LET pos == RFindDot(file, Len(file))
    IN  IF pos = 0 THEN <<file, <<>>>>
        ELSE <<SubSeq(file, 1, pos - 1), SubSeq(file, pos + 1, Len(file))>>

\* pair.first + ".o"
ObjName(file) == parseFile(file)[1] \o <<".", "o">>

\* str.find(":", last): the least position >= last holding ':', 0 for npos.
RECURSIVE FindColon(_, _)
FindColon(str, last) ==
    IF last > Len(str) THEN 0
    ELSE IF str[last] = ":" THEN last
    ELSE FindColon(str, last + 1)

\* The loop of main over CPATH: the fields between ':', pushed as they are.
RECURSIVE SplitCpath(_, _)
SplitCpath(str, last) ==
    LET next == FindColon(str, last)
    IN  IF next # 0
        THEN <<SubSeq(str, last, next - 1)>> \o SplitCpath(str, next + 1)
        ELSE <<SubSeq(str, last, Len(str))>>

\* argv[i] begins with "-I"
IsDashI(arg) == Len(arg) >= 2 /\ arg[1] = "-" /\ arg[2] = "I"

\* The number of leading -Idir arguments (start - 1 in main).
RECURSIVE CountDashI(_, _)
CountDashI(args, j) ==
    IF j > Len(args) \/ ~IsDashI(args[j]) THEN j - 1
    ELSE CountDashI(args, j + 1)

\* std::stoi on a string of decimal digits.
DigitVal(c) ==
    CASE c = "0" -> 0 [] c = "1" -> 1 [] c = "2" -> 2 [] c = "3" -> 3
      [] c = "4" -> 4 [] c = "5" -> 5 [] c = "6" -> 6 [] c = "7" -> 7
      [] c = "8" -> 8 [] c = "9" -> 9

RECURSIVE Stoi(_)
Stoi(s) ==
    IF s = <<>> THEN 0
    ELSE 10 * Stoi(SubSeq(s, 1, Len(s) - 1)) + DigitVal(Last(s))


\* ------------------------------------------------------------------ inputs
\* File names used on the command lines and in the files below.
a_c == <<"a", ".", "c">>
b_c == <<"b", ".", "c">>
b_h == <<"b", ".", "h">>
n_c == <<"n", ".", "c">>
n_y == <<"n", ".", "y">>
n_l == <<"n", ".", "l">>
u_c == <<"u", ".", "c">>
u_y == <<"u", ".", "y">>
hdr_h == <<"h">>
hdr_k == <<"k">>
hdr_m == <<"m">>
hdr_n == <<"n">>
hdr_q == <<"q">>
cwd == <<".", "/">>

\* The text of one include line.
Quoted(x) == INCLUDE \o <<" ", QUOTE>> \o x \o <<QUOTE, "\n">>
Angled(x) == INCLUDE \o <<" ", "<">> \o x \o <<">", "\n">>

\* The files on disk: path |-> content.  a.c includes h and k (the second
\* line is indented), h includes k and the system header <s>, k includes h
\* (a cycle).  n.c includes the empty file n and itself; n.y and n.l include
\* nothing.  b.c and u.y include m, which is not in the current directory:
\* only d/, e/ and f/ hold a (different) m.  The first include line of u.c
\* has no closing quote; its second line includes the empty file q.
Files ==
    (cwd \o a_c) :> (Quoted(hdr_h) \o <<" ", "\t">> \o Quoted(hdr_k))
 @@ (cwd \o hdr_h)   :> (Quoted(hdr_k) \o Angled(<<"s">>))
 @@ (cwd \o hdr_k)   :> (<<"x", "\n">> \o Quoted(hdr_h))
 @@ (cwd \o n_c) :> (Quoted(hdr_n) \o Quoted(n_c))
 @@ (cwd \o hdr_n)   :> <<>>
 @@ (cwd \o hdr_q)   :> <<>>
 @@ (cwd \o n_y) :> <<>>
 @@ (cwd \o n_l) :> <<"x", "\n">>
 @@ (cwd \o b_c) :> Quoted(hdr_m)
 @@ (cwd \o u_y) :> Quoted(hdr_m)
 @@ (cwd \o u_c) :> (INCLUDE \o <<" ", QUOTE, "n", "\n">> \o Quoted(hdr_q))
 @@ (<<"d", "/">> \o hdr_m) :> <<>>
 @@ (<<"e", "/">> \o hdr_m) :> Quoted(hdr_k)
 @@ (<<"f", "/">> \o hdr_m) :> <<"x", "\n">>

\* The command lines (argv[1..argc-1]) and CPATH values the model runs: one
\* target with a cycle below it; a target given twice; two targets with one
\* base name; a target whose include opens nowhere; an argument with an
\* illegal extension after a legal one; two targets that share a header
\* found in a -I directory; CPATH directories; a target with an include
\* line whose quote is not closed.
CommandLines ==
    { [argv |-> <<a_c>>, cpath |-> NULL],
      [argv |-> <<n_c, n_c>>, cpath |-> NULL],
      [argv |-> <<n_y, n_l>>, cpath |-> NULL],
      [argv |-> <<b_c>>, cpath |-> NULL],
      [argv |-> <<u_c>>, cpath |-> NULL],
      [argv |-> <<n_y, b_h, a_c>>, cpath |-> NULL],
      [argv |-> <<<<"-", "I", "d">>, b_c, u_y>>, cpath |-> <<"e">>],
      [argv |-> <<b_c>>, cpath |-> <<"e", ":", "f", "/">>] }

\* The decimal text of a pool size below 10.
Digits == <<"0", "1", "2", "3", "4", "5", "6", "7", "8", "9">>

\* The values of CRAWLER_THREADS: not set, or the text of 0..MaxThreads.
ThreadSettings == {NULL} \cup { <<Digits[n + 1]>> : n \in 0..MaxThreads }

\* ------------------------------------------------------------------- state
VARIABLES
    argv,               \* the command line, argv[1..argc-1]
    cpath,              \* getenv("CPATH")
    crawlerthreads,     \* getenv("CRAWLER_THREADS")
    mainpc,             \* where main is
    i,                  \* main's loop variable over argv
    start,              \* index of the first file argument
    number_of_threads,
    threads,            \* the number of std::thread objects created so far
    dirs,               \* the search path
    theTable,           \* file name |-> list of dependencies
    workQ,              \* file names still to process
    bs,                 \* val of the global BinarySemaphore bs
    threadlock,         \* val of main's BinarySemaphore threadlock
    t_count,            \* ThreadTracker::t_count
    pc,                 \* per worker: where it is
    filename,           \* per worker: the name popped from workQ
    fd,                 \* per worker: the open file, [path, pos]; path NULL when none
    name,               \* per worker: the include name collected from a line
    waiting,            \* the workers blocked in a condition variable's wait
    printed,            \* print phase: names already printed for this target
    toProcess,          \* print phase: names still to expand
    stdout,             \* the lines written to standard output
    stderr,             \* the messages written to standard error
    exited,             \* the process has ended
    status,             \* its exit status
    pushed,             \* history: bag of the names pushed onto workQ
    scanned             \* history: bag of the names whose scan reached fclose

vars == <<argv, cpath, crawlerthreads, mainpc, i, start, number_of_threads,
          threads, dirs, theTable, workQ, bs, threadlock, t_count, pc,
          filename, fd, name, waiting, printed, toProcess, stdout, stderr, exited,
          status, pushed, scanned>>

inputVars == <<argv, cpath, crawlerthreads>>
mainVars == <<mainpc, i, start, number_of_threads, threads, dirs>>
workerVars == <<pc, filename, fd, name, waiting>>
printVars == <<printed, toProcess, stdout>>
exitVars == <<stderr, exited, status>>
histVars == <<pushed, scanned>>

argc == Len(argv) + 1
Workers == 1..Len(pc)

\* The state when main is entered: the globals are constructed (bs.val = 1,
\* the containers empty); the command line and the environment are inputs.
Init ==
    /\ \E cl \in CommandLines : argv = cl.argv /\ cpath = cl.cpath
    /\ crawlerthreads \in ThreadSettings
    /\ mainpc = "setup"
    /\ i = 0
    /\ start = 0
    /\ number_of_threads = 0
    /\ threads = 0
    /\ dirs = <<>>
    /\ theTable = <<>>
    /\ workQ = <<>>
    /\ bs = 1
    /\ threadlock = 0
    /\ t_count = 0
    /\ pc = <<>>
    /\ filename = <<>>
    /\ fd = <<>>
    /\ name = <<>>
    /\ waiting = {}
    /\ printed = {}
    /\ toProcess = <<>>
    /\ stdout = <<>>
    /\ stderr = <<>>
    /\ exited = FALSE
    /\ status = 0
    /\ pushed = EmptyBag
    /\ scanned = EmptyBag

\* -------------------------------------------------- the shared containers
\* Found that reports every name as present.
FoundAlways(key) == TRUE

\* MapSafe::find(name) != MapSafe::end()
Found(key) == key \in DOMAIN theTable

\* MapSafe::insert: unordered_map::insert leaves an existing entry alone.
Insert(table, key, list) ==
    IF key \in DOMAIN table THEN table ELSE table @@ (key :> list)

\* MapSafe::getValue: map[key] creates an empty entry for a missing key.
GetValue(table, key) == Insert(table, key, <<>>)

\* ListPushBack that puts the name at the front of the list.
ListPushFront(table, key, n) ==
    [table EXCEPT ![key] = <<n>> \o @]

\* ll->push_back(name) through the pointer getValue returned for key.
ListPushBack(table, key, n) ==
    [table EXCEPT ![key] = Append(@, n)]

\* exit status as the parent sees it: the low 8 bits.
ExitStatus(code) == code % 256

\* openFile: the first dirs[i] + file that opens, NULL when none does.
RECURSIVE OpenFrom(_, _)
OpenFrom(file, j) ==
    IF j > Len(dirs) THEN NULL
    ELSE IF (dirs[j] \o file) \in DOMAIN Files THEN dirs[j] \o file
    ELSE OpenFrom(file, j + 1)

openFile(file) == OpenFrom(file, 1)


\* -------------------------------------------------------------------- main
\* dirs as main assembles it: "./", the -I directories through dirName, then
\* the fields of CPATH as they are.
AssembleDirs(args, first, env) ==
    <<DirName(cwd)>>
    \o [j \in 1..(first - 1) |-> DirName(SubSeq(args[j], 3, Len(args[j])))]
    \o (IF env # NULL THEN SplitCpath(env, 1) ELSE <<>>)

\* IllegalExt that rejects only an argument without an extension.
IllegalExtMissingOnly(file) == parseFile(file)[2] = <<>>

\* pair.second != "c" && pair.second != "y" && pair.second != "l"
IllegalExt(file) == parseFile(file)[2] \notin {<<"c">>, <<"y">>, <<"l">>}

\* main up to the seeding loop: the pool size, the tracker and threadlock,
\* the count of -I flags and the search path.
MainSetup ==
    /\ ~exited /\ mainpc = "setup"
    /\ number_of_threads' =
          (IF crawlerthreads = NULL THEN DefaultThreads ELSE Stoi(crawlerthreads))
    /\ t_count' = number_of_threads'
    /\ threadlock' = 1
    /\ start' = CountDashI(argv, 1) + 1
    /\ dirs' = AssembleDirs(argv, start', cpath)
    /\ i' = start'
    /\ pc' = [w \in 1..number_of_threads' |-> "unborn"]
    /\ filename' = [w \in 1..number_of_threads' |-> <<>>]
    /\ fd' = [w \in 1..number_of_threads' |-> [path |-> NULL, pos |-> 0]]
    /\ name' = [w \in 1..number_of_threads' |-> <<>>]
    /\ mainpc' = "seed"
    /\ UNCHANGED <<inputVars, threads, theTable, workQ, bs, waiting,
                   printVars, exitVars, histVars>>

\* One iteration of the seeding loop with a legal extension: file.o |->
\* <<file>>, file |-> <<>>, and file onto workQ.
SeedTarget ==
    /\ ~exited /\ mainpc = "seed" /\ i < argc
    /\ ~IllegalExt(argv[i])
    /\ theTable' = Insert(Insert(theTable, ObjName(argv[i]), <<argv[i]>>),
                          argv[i], <<>>)
    /\ workQ' = Append(workQ, argv[i])
    /\ pushed' = pushed (+) SetToBag({argv[i]})
    /\ i' = i + 1
    /\ UNCHANGED <<inputVars, mainpc, start, number_of_threads, threads, dirs,
                   bs, threadlock, t_count, workerVars, printVars, exitVars,
                   scanned>>

\* One iteration of the seeding loop with another extension: return -1.
IllegalExtension ==
    /\ ~exited /\ mainpc = "seed" /\ i < argc
    /\ IllegalExt(argv[i])
    /\ stderr' = Append(stderr, <<"Illegal extension", parseFile(argv[i])[2]>>)
    /\ exited' = TRUE
    /\ status' = ExitStatus(-1)
    /\ UNCHANGED <<inputVars, mainVars, theTable, workQ, bs, threadlock,
                   t_count, workerVars, printVars, histVars>>

\* The loop that creates the threads: one std::thread per step, which starts
\* running at once; when all are created main goes on to wait_done.
MainSpawn ==
    /\ ~exited
    /\ \/ mainpc = "seed" /\ i >= argc
       \/ mainpc = "spawn"
    /\ IF threads < number_of_threads
       THEN /\ threads' = threads + 1
            /\ pc' = [pc EXCEPT ![threads + 1] = "tl_wait"]
            /\ mainpc' = "spawn"
       ELSE /\ mainpc' = "wait_done"
            /\ UNCHANGED <<threads, pc>>
    /\ UNCHANGED <<inputVars, i, start, number_of_threads, dirs, theTable,
                   workQ, bs, threadlock, t_count, filename, fd, name,
                   waiting, printVars, exitVars, histVars>>

\* ThreadTracker::wait_done: while (t_count > 0) cv.wait(lock);
TrackerBlocks(count) == count > 0

\* tracker.wait_done() returns once t_count > 0 is false.
MainWaitDone ==
    /\ ~exited /\ mainpc = "wait_done"
    /\ ~TrackerBlocks(t_count)
    /\ mainpc' = "join"
    /\ UNCHANGED <<inputVars, i, start, number_of_threads, threads, dirs,
                   theTable, workQ, bs, threadlock, t_count, workerVars,
                   printVars, exitVars, histVars>>

\* thread.join() for every thread: returns when each thread function has
\* returned.
MainJoin ==
    /\ ~exited /\ mainpc = "join"
    /\ \A w \in Workers : pc[w] = "finished"
    /\ mainpc' = "print"
    /\ i' = start
    /\ UNCHANGED <<inputVars, start, number_of_threads, threads, dirs,
                   theTable, workQ, bs, threadlock, t_count, workerVars,
                   printVars, exitVars, histVars>>


\* ------------------------------------------------------- BinarySemaphore
\* WaitBlocks with the test off by one: while (val < 0).
WaitBlocksBelowZero(val) == val < 0

\* wait(): while (val <= 0) cv.wait(lock);
WaitBlocks(val) == val <= 0

\* signal(): while (val > 0) cv.wait(lock);
SignalBlocks(val) == val > 0

\* The workers in the wait of threadlock's, and of bs's, condition variable.
ThreadlockWaiters ==
    {w \in waiting : pc[w] \in {"tl_wait", "tl_signal", "tl_signal_break"}}
BsWaiters == {w \in waiting : pc[w] \in {"bs_wait", "bs_signal"}}

\* NotifyOne without the notify: signal() that only sets val.
NotifyNone(cvWaiters) == {waiting}

\* cv.notify_one(): one of the threads waiting on cv, if any, leaves its wait
\* (and tests its while condition again).
NotifyOne(cvWaiters) ==
    IF cvWaiters = {} THEN {waiting} ELSE {waiting \ {x} : x \in cvWaiters}

\* ------------------------------------------------------------ the workers
Running(w) == ~exited /\ w \in Workers /\ w \notin waiting

\* WorkerWait without the wait: the worker goes to the size test at once.
WorkerWaitSkipped(w) ==
    /\ Running(w) /\ pc[w] = "tl_wait"
    /\ pc' = [pc EXCEPT ![w] = "size"]
    /\ UNCHANGED <<inputVars, mainVars, theTable, workQ, bs, threadlock,
                   t_count, filename, fd, name, waiting, printVars, exitVars,
                   histVars>>

\* thread->wait() at the top of the worker loop.
WorkerWait(w) ==
    /\ Running(w) /\ pc[w] = "tl_wait"
    /\ IF WaitBlocks(threadlock)
       THEN /\ waiting' = waiting \cup {w}
            /\ UNCHANGED <<threadlock, pc>>
       ELSE /\ threadlock' = threadlock - 1
            /\ pc' = [pc EXCEPT ![w] = "size"]
            /\ UNCHANGED waiting
    /\ UNCHANGED <<inputVars, mainVars, theTable, workQ, bs, t_count,
                   filename, fd, name, printVars, exitVars, histVars>>

\* QueueHasWork with the test off by one: workQ.size() > 1.
QueueHasWorkOffByOne(q_) == Len(q_) > 1

\* workQ.size() > 0
QueueHasWork(q_) == Len(q_) > 0

\* if (workQ.size() > 0)
WorkerSize(w) ==
    /\ Running(w) /\ pc[w] = "size"
    /\ pc' = [pc EXCEPT ![w] = IF QueueHasWork(workQ) THEN "pop"
                                ELSE "tl_signal_break"]
    /\ UNCHANGED <<inputVars, mainVars, theTable, workQ, bs, threadlock,
                   t_count, filename, fd, name, waiting, printVars, exitVars,
                   histVars>>

\* std::string filename = workQ.pop_front();  On an empty queue pop_front
\* returns NULL, and std::string(NULL) ends the process (std::logic_error
\* uncaught in the thread, or a fault): status 134, nothing on stdout.
WorkerPop(w) ==
    /\ Running(w) /\ pc[w] = "pop"
    /\ IF workQ = <<>>
       THEN /\ exited' = TRUE
            /\ status' = 134
            /\ stderr' = Append(stderr, <<"terminate", <<>>>>)
            /\ UNCHANGED <<workQ, filename, pc>>
       ELSE /\ filename' = [filename EXCEPT ![w] = Head(workQ)]
            /\ workQ' = Tail(workQ)
            /\ pc' = [pc EXCEPT ![w] = "tl_signal"]
            /\ UNCHANGED exitVars
    /\ UNCHANGED <<inputVars, mainVars, theTable, bs, threadlock, t_count,
                   fd, name, waiting, printVars, histVars>>

\* WorkerSignal with the break after both signals: the worker retires after
\* its first pop.
WorkerSignalBreaks(w) ==
    /\ Running(w) /\ pc[w] \in {"tl_signal", "tl_signal_break"}
    /\ IF SignalBlocks(threadlock)
       THEN /\ waiting' = waiting \cup {w}
            /\ UNCHANGED <<threadlock, pc>>
       ELSE /\ threadlock' = threadlock + 1
            /\ pc' = [pc EXCEPT ![w] = "signal_done"]
            /\ waiting' \in NotifyOne(ThreadlockWaiters)
    /\ UNCHANGED <<inputVars, mainVars, theTable, workQ, bs, t_count,
                   filename, fd, name, printVars, exitVars, histVars>>

\* thread->signal(), after the pop and in the else branch before break.
WorkerSignal(w) ==
    /\ Running(w) /\ pc[w] \in {"tl_signal", "tl_signal_break"}
    /\ IF SignalBlocks(threadlock)
       THEN /\ waiting' = waiting \cup {w}
            /\ UNCHANGED <<threadlock, pc>>
       ELSE /\ threadlock' = threadlock + 1
            /\ pc' = [pc EXCEPT ![w] = IF pc[w] = "tl_signal" THEN "lookup"
                                        ELSE "signal_done"]
            /\ waiting' \in NotifyOne(ThreadlockWaiters)
    /\ UNCHANGED <<inputVars, mainVars, theTable, workQ, bs, t_count,
                   filename, fd, name, printVars, exitVars, histVars>>

\* theTable.getValue(filename), the second argument of the call of process.
WorkerLookup(w) ==
    /\ Running(w) /\ pc[w] = "lookup"
    /\ theTable' = GetValue(theTable, filename[w])
    /\ pc' = [pc EXCEPT ![w] = "open"]
    /\ UNCHANGED <<inputVars, mainVars, workQ, bs, threadlock, t_count,
                   filename, fd, name, waiting, printVars, exitVars,
                   histVars>>

\* ProcessOpen that reports a failed open and returns to the worker loop
\* instead of calling exit.
ProcessOpenReturns(w) ==
    /\ Running(w) /\ pc[w] = "open"
    /\ IF openFile(filename[w]) = NULL
       THEN /\ stderr' = Append(stderr, <<"Error opening", filename[w]>>)
            /\ pc' = [pc EXCEPT ![w] = "tl_wait"]
            /\ UNCHANGED <<fd, exited, status>>
       ELSE /\ fd' = [fd EXCEPT ![w] = [path |-> openFile(filename[w]),
                                        pos |-> 1]]
            /\ pc' = [pc EXCEPT ![w] = "read"]
            /\ UNCHANGED exitVars
    /\ UNCHANGED <<inputVars, mainVars, theTable, workQ, bs, threadlock,
                   t_count, filename, name, waiting, printVars, histVars>>

\* process: FILE* fd = openFile(file); if (fd == NULL) { ...; exit(-1); }
ProcessOpen(w) ==
    /\ Running(w) /\ pc[w] = "open"
    /\ IF openFile(filename[w]) = NULL
       THEN /\ stderr' = Append(stderr, <<"Error opening", filename[w]>>)
            /\ exited' = TRUE
            /\ status' = ExitStatus(-1)
            /\ UNCHANGED <<fd, pc>>
       ELSE /\ fd' = [fd EXCEPT ![w] = [path |-> openFile(filename[w]),
                                        pos |-> 1]]
            /\ pc' = [pc EXCEPT ![w] = "read"]
            /\ UNCHANGED exitVars
    /\ UNCHANGED <<inputVars, mainVars, theTable, workQ, bs, threadlock,
                   t_count, filename, name, waiting, printVars, histVars>>

\* What the fgets loop of process meets at each position of each file: the
\* line fgets stores (NULL at end of file) and the name the scan of that
\* line collects (NULL when the line is skipped).
ReadAt ==
    [path \in DOMAIN Files |->
        [pos \in 1..(Len(Files[path]) + 1) |->
            LET buf == Fgets(Files[path], pos)
            IN  [buf |-> buf,
                 name |-> IF buf = NULL THEN NULL ELSE ScanLine(buf)]]]

\* process: one fgets and the scan of the line: at end of file fclose and
\* back to the worker loop; a line that is skipped (continue); a line with
\* a quoted name, which goes on to bs.wait().
ProcessRead(w) ==
    /\ Running(w) /\ pc[w] = "read"
    /\ LET line == ReadAt[fd[w].path][fd[w].pos]
       IN  IF line.buf = NULL
           THEN /\ fd' = [fd EXCEPT ![w] = [path |-> NULL, pos |-> 0]]
                /\ scanned' = scanned (+) SetToBag({filename[w]})
                /\ pc' = [pc EXCEPT ![w] = "tl_wait"]
                /\ UNCHANGED name
           ELSE /\ fd' = [fd EXCEPT ![w].pos = @ + Len(line.buf)]
                /\ UNCHANGED scanned
                /\ IF line.name = NULL
                   THEN UNCHANGED <<name, pc>>
                   ELSE /\ name' = [name EXCEPT ![w] = line.name]
                        /\ pc' = [pc EXCEPT ![w] = "bs_wait"]
    /\ UNCHANGED <<inputVars, mainVars, theTable, workQ, bs, threadlock,
                   t_count, filename, waiting, printVars, exitVars, pushed>>

\* process: bs.wait();
ProcessWait(w) ==
    /\ Running(w) /\ pc[w] = "bs_wait"
    /\ IF WaitBlocks(bs)
       THEN /\ waiting' = waiting \cup {w}
            /\ UNCHANGED <<bs, pc>>
       ELSE /\ bs' = bs - 1
            /\ pc' = [pc EXCEPT ![w] = "append"]
            /\ UNCHANGED waiting
    /\ UNCHANGED <<inputVars, mainVars, theTable, workQ, threadlock, t_count,
                   filename, fd, name, printVars, exitVars, histVars>>

\* process: ll->push_back({name});
ProcessAppend(w) ==
    /\ Running(w) /\ pc[w] = "append"
    /\ theTable' = ListPushBack(theTable, filename[w], name[w])
    /\ pc' = [pc EXCEPT ![w] = "find"]
    /\ UNCHANGED <<inputVars, mainVars, workQ, bs, threadlock, t_count,
                   filename, fd, name, waiting, printVars, exitVars,
                   histVars>>

\* process: if (theTable.find(name) != theTable.end()) { bs.signal(); ... }
ProcessFind(w) ==
    /\ Running(w) /\ pc[w] = "find"
    /\ pc' = [pc EXCEPT ![w] = IF Found(name[w]) THEN "bs_signal"
                                ELSE "insert"]
    /\ UNCHANGED <<inputVars, mainVars, theTable, workQ, bs, threadlock,
                   t_count, filename, fd, name, waiting, printVars, exitVars,
                   histVars>>

\* ProcessInsert without the insert: the name goes onto workQ with no entry.
ProcessInsertSkipped(w) ==
    /\ Running(w) /\ pc[w] = "insert"
    /\ pc' = [pc EXCEPT ![w] = "push"]
    /\ UNCHANGED <<inputVars, mainVars, theTable, workQ, bs, threadlock,
                   t_count, filename, fd, name, waiting, printVars, exitVars,
                   histVars>>

\* process: theTable.insert({name, {}});
ProcessInsert(w) ==
    /\ Running(w) /\ pc[w] = "insert"
    /\ theTable' = Insert(theTable, name[w], <<>>)
    /\ pc' = [pc EXCEPT ![w] = "push"]
    /\ UNCHANGED <<inputVars, mainVars, workQ, bs, threadlock, t_count,
                   filename, fd, name, waiting, printVars, exitVars,
                   histVars>>

\* process: workQ.push_back(name);
ProcessPush(w) ==
    /\ Running(w) /\ pc[w] = "push"
    /\ workQ' = Append(workQ, name[w])
    /\ pushed' = pushed (+) SetToBag({name[w]})
    /\ pc' = [pc EXCEPT ![w] = "bs_signal"]
    /\ UNCHANGED <<inputVars, mainVars, theTable, bs, threadlock, t_count,
                   filename, fd, name, waiting, printVars, exitVars, scanned>>

\* ProcessSignal without the signal: the worker reads on holding bs.
ProcessSignalSkipped(w) ==
    /\ Running(w) /\ pc[w] = "bs_signal"
    /\ pc' = [pc EXCEPT ![w] = "read"]
    /\ UNCHANGED <<inputVars, mainVars, theTable, workQ, bs, threadlock,
                   t_count, filename, fd, name, waiting, printVars, exitVars,
                   histVars>>

\* process: bs.signal(); on both paths, then the next fgets.
ProcessSignal(w) ==
    /\ Running(w) /\ pc[w] = "bs_signal"
    /\ IF SignalBlocks(bs)
       THEN /\ waiting' = waiting \cup {w}
            /\ UNCHANGED <<bs, pc>>
       ELSE /\ bs' = bs + 1
            /\ pc' = [pc EXCEPT ![w] = "read"]
            /\ waiting' \in NotifyOne(BsWaiters)
    /\ UNCHANGED <<inputVars, mainVars, theTable, workQ, threadlock, t_count,
                   filename, fd, name, printVars, exitVars, histVars>>

\* tracker->signal_done(), after which the thread function returns.  The
\* notify_one wakes main, whose wait_done is the guard of MainWaitDone.
WorkerDone(w) ==
    /\ Running(w) /\ pc[w] = "signal_done"
    /\ t_count' = t_count - 1
    /\ pc' = [pc EXCEPT ![w] = "finished"]
    /\ UNCHANGED <<inputVars, mainVars, theTable, workQ, bs, threadlock,
                   filename, fd, name, waiting, printVars, exitVars,
                   histVars>>

\* A condition variable's wait may return without a notify (a spurious
\* wakeup); the thread tests its while condition again.
SpuriousWakeup(w) ==
    /\ ~exited /\ w \in waiting
    /\ waiting' = waiting \ {w}
    /\ UNCHANGED <<inputVars, mainVars, theTable, workQ, bs, threadlock,
                   t_count, pc, filename, fd, name, printVars, exitVars,
                   histVars>>


\* --------------------------------------------------------- the print phase
\* NewNames that tests printed as it was before the loop: a name the list
\* holds twice is printed twice.
NewNamesStaleSet(ll, seen) == SelectSeq(ll, LAMBDA x : x \notin seen)

\* The for loop of printDependencies over one list ll: the names it prints,
\* in order, given the names already in printed.
RECURSIVE NewNames(_, _)
NewNames(ll, seen) ==
    IF ll = <<>> THEN <<>>
    ELSE IF Head(ll) \in seen THEN NewNames(Tail(ll), seen)
    ELSE <<Head(ll)>> \o NewNames(Tail(ll), seen \cup {Head(ll)})

Range(f) == {f[x] : x \in DOMAIN f}

\* fprintf(fd, " %s", iter->c_str()) for each name of a sequence.
Writes(names) == [j \in 1..Len(names) |-> <<" ">> \o names[j]]

\* PrintTarget with printed declared outside the loop over the targets: the
\* names of the earlier targets stay in it.
PrintTargetKeepsPrinted ==
    /\ ~exited /\ mainpc = "print" /\ i < argc
    /\ stdout' = Append(stdout, ObjName(argv[i]) \o <<":">>)
    /\ printed' = printed \cup {ObjName(argv[i])}
    /\ toProcess' = <<ObjName(argv[i])>>
    /\ mainpc' = "flatten"
    /\ UNCHANGED <<inputVars, i, start, number_of_threads, threads, dirs,
                   theTable, workQ, bs, threadlock, t_count, workerVars,
                   exitVars, histVars>>

\* Steps 5a-5c for argv[i]: fresh printed and toProcess, printf("%s:", obj).
PrintTarget ==
    /\ ~exited /\ mainpc = "print" /\ i < argc
    /\ stdout' = Append(stdout, ObjName(argv[i]) \o <<":">>)
    /\ printed' = {ObjName(argv[i])}
    /\ toProcess' = <<ObjName(argv[i])>>
    /\ mainpc' = "flatten"
    /\ UNCHANGED <<inputVars, i, start, number_of_threads, threads, dirs,
                   theTable, workQ, bs, threadlock, t_count, workerVars,
                   exitVars, histVars>>

\* One iteration of the while loop of printDependencies: pop the front of
\* toProcess, look its list up with getValue, print and queue the names of
\* the list that are not in printed.
PrintDependencies ==
    /\ ~exited /\ mainpc = "flatten" /\ toProcess # <<>>
    /\ LET front == Head(toProcess)
           table == GetValue(theTable, front)
           new == NewNames(table[front], printed)
       IN  /\ theTable' = table
           /\ stdout' = stdout \o Writes(new)
           /\ printed' = printed \cup Range(new)
           /\ toProcess' = Tail(toProcess) \o new
    /\ UNCHANGED <<inputVars, mainVars, workQ, bs, threadlock, t_count,
                   workerVars, exitVars, histVars>>

\* printDependencies returns on an empty toProcess; printf("\n"); i++.
PrintNewline ==
    /\ ~exited /\ mainpc = "flatten" /\ toProcess = <<>>
    /\ stdout' = Append(stdout, <<"\n">>)
    /\ i' = i + 1
    /\ mainpc' = "print"
    /\ UNCHANGED <<inputVars, start, number_of_threads, threads, dirs,
                   theTable, workQ, bs, threadlock, t_count, workerVars,
                   printed, toProcess, exitVars, histVars>>

\* return 0 after the last target.
MainReturn ==
    /\ ~exited /\ mainpc = "print" /\ i >= argc
    /\ exited' = TRUE
    /\ status' = ExitStatus(0)
    /\ mainpc' = "done"
    /\ UNCHANGED <<inputVars, i, start, number_of_threads, threads, dirs,
                   theTable, workQ, bs, threadlock, t_count, workerVars,
                   printVars, stderr, histVars>>

\* ----------------------------------------------------------- specification
Main ==
    \/ MainSetup
    \/ SeedTarget
    \/ IllegalExtension
    \/ MainSpawn
    \/ MainWaitDone
    \/ MainJoin
    \/ PrintTarget
    \/ PrintDependencies
    \/ PrintNewline
    \/ MainReturn

Worker(w) ==
    \/ WorkerWait(w)
    \/ WorkerSize(w)
    \/ WorkerPop(w)
    \/ WorkerSignal(w)
    \/ WorkerLookup(w)
    \/ ProcessOpen(w)
    \/ ProcessRead(w)
    \/ ProcessWait(w)
    \/ ProcessAppend(w)
    \/ ProcessFind(w)
    \/ ProcessInsert(w)
    \/ ProcessPush(w)
    \/ ProcessSignal(w)
    \/ WorkerDone(w)

Next ==
    \/ Main
    \/ \E w \in Workers : WorkerWait(w)
    \/ \E w \in Workers : WorkerSize(w)
    \/ \E w \in Workers : WorkerPop(w)
    \/ \E w \in Workers : WorkerSignal(w)
    \/ \E w \in Workers : WorkerLookup(w)
    \/ \E w \in Workers : ProcessOpen(w)
    \/ \E w \in Workers : ProcessRead(w)
    \/ \E w \in Workers : ProcessWait(w)
    \/ \E w \in Workers : ProcessAppend(w)
    \/ \E w \in Workers : ProcessFind(w)
    \/ \E w \in Workers : ProcessInsert(w)
    \/ \E w \in Workers : ProcessPush(w)
    \/ \E w \in Workers : ProcessSignal(w)
    \/ \E w \in Workers : WorkerDone(w)
    \/ \E w \in Workers : SpuriousWakeup(w)

Spec == Init /\ [][Next]_vars


\* ------------------------------------------------------ notions of claims
\* main has returned from tracker.wait_done(); and also from the joins.
PoolDone == mainpc \in {"join", "print", "flatten", "done"}
CrawlDone == mainpc \in {"print", "flatten", "done"}

\* The worker is inside process, between openFile's return and fclose.
Scanning(w) ==
    pc[w] \in {"read", "bs_wait", "append", "find", "insert", "push",
               "bs_signal"}

\* The names of the quoted include lines of a file's text, in order.
RECURSIVE IncludesFrom(_, _)
IncludesFrom(content, pos) ==
    LET buf == Fgets(content, pos)
    IN  IF buf = NULL THEN <<>>
        ELSE (IF ScanLine(buf) = NULL THEN <<>> ELSE <<ScanLine(buf)>>)
             \o IncludesFrom(content, pos + Len(buf))

\* The table and queue after one worker alone has scanned a file with the
\* include names incs.
RECURSIVE SeqScan(_, _, _, _)
SeqScan(table, queue, file, incs) ==
    IF incs = <<>> THEN <<table, queue>>
    ELSE LET n == Head(incs)
             t1 == [table EXCEPT ![file] = Append(@, n)]
         IN  IF n \in DOMAIN t1
             THEN SeqScan(t1, queue, file, Tail(incs))
             ELSE SeqScan(t1 @@ (n :> <<>>), Append(queue, n), file, Tail(incs))

\* The table when one worker alone has drained the queue.
RECURSIVE SeqCrawl(_, _)
SeqCrawl(table, queue) ==
    IF queue = <<>> THEN table
    ELSE IF openFile(Head(queue)) = NULL THEN table
    ELSE LET r == SeqScan(table, Tail(queue), Head(queue),
                          IncludesFrom(Files[openFile(Head(queue))], 1))
         IN  SeqCrawl(r[1], r[2])

\* The table and the queue as the seeding loop leaves them.
RECURSIVE SeededTable(_)
SeededTable(j) ==
    IF j < start THEN <<>>
    ELSE LET t == SeededTable(j - 1)
         IN  t @@ (ObjName(argv[j]) :> <<argv[j]>>) @@ (argv[j] :> <<>>)

SeededQueue == SubSeq(argv, start, Len(argv))

\* The lines of standard output that are complete: each the sequence of
\* its writes before the newline.
RECURSIVE LinesOf(_, _)
LinesOf(ws, cur) ==
    IF ws = <<>> THEN <<>>
    ELSE IF Head(ws) = <<"\n">> THEN <<cur>> \o LinesOf(Tail(ws), <<>>)
    ELSE LinesOf(Tail(ws), Append(cur, Head(ws)))

OutputLines == LinesOf(stdout, <<>>)
\* "root:" without its colon, and " name" without its blank.
LineRoot(line) == SubSeq(line[1], 1, Len(line[1]) - 1)
LineDeps(line) == [j \in 1..(Len(line) - 1) |-> Tail(line[j + 1])]

\* The names reachable from the names of S along the lists of theTable.
ListOf(x) == IF x \in DOMAIN theTable THEN theTable[x] ELSE <<>>
RECURSIVE Reach(_)
Reach(S) ==
    LET T == S \cup UNION {Range(ListOf(x)) : x \in S}
    IN  IF T = S THEN S ELSE Reach(T)

\* Breadth-first first-discovery order of deps from root: the names expanded
\* are root, deps[1], deps[2], ...; a name is discovered by the first of
\* them whose list holds it, at its first position in that list.
Expanded(deps, root, j) == IF j = 0 THEN root ELSE deps[j]
Least(S) == CHOOSE x \in S : \A y \in S : x <= y
Discoverer(deps, root, x) ==
    Least({j \in 0..Len(deps) : x \in Range(ListOf(Expanded(deps, root, j)))})
FirstPos(list, x) == Least({q \in 1..Len(list) : list[q] = x})
DiscoveredBefore(deps, root, x, y) ==
    LET dx == Discoverer(deps, root, x)
        dy == Discoverer(deps, root, y)
    IN  \/ dx < dy
        \/ /\ dx = dy
           /\ FirstPos(ListOf(Expanded(deps, root, dx)), x)
                < FirstPos(ListOf(Expanded(deps, root, dx)), y)

\* ------------------------------------------------------------------ claims
\* C1: for a pool of N >= 1 workers, once main has returned from
\* tracker.wait_done() every worker has retired, workQ is empty, and every
\* name ever pushed onto workQ has been popped and scanned to its fclose,
\* as many times as it was pushed.
C1_NoWorkDropped ==
    (number_of_threads >= 1 /\ PoolDone) =>
        /\ \A w \in Workers : pc[w] = "finished"
        /\ workQ = <<>>
        /\ scanned = pushed

\* C1 witness: two workers have retired after scanning three files, one of
\* them discovered by a scan.
C1_Witness ==
    /\ number_of_threads = 2 /\ mainpc = "join"
    /\ BagCardinality(pushed) >= 3
    /\ BagIn(hdr_k, scanned)

\* C2: at crawl completion with N >= 1 workers theTable is the table one
\* worker alone produces from the same command line, whatever the pool size
\* and the scheduling.
C2_Deterministic ==
    (number_of_threads >= 1 /\ CrawlDone) =>
        theTable = SeqCrawl(SeededTable(Len(argv)), SeededQueue)

\* C3: every complete output line lists exactly the names reachable from
\* its root other than the root, each once, in breadth-first
\* first-discovery order.
C3_FlattenBFS ==
    \A n \in 1..Len(OutputLines) :
        LET root == LineRoot(OutputLines[n])
            deps == LineDeps(OutputLines[n])
        IN  /\ Range(deps) = Reach({root}) \ {root}
            /\ Cardinality(Range(deps)) = Len(deps)
            /\ \A x, y \in 1..Len(deps) :
                  x < y => DiscoveredBefore(deps, root, deps[x], deps[y])

\* C3 witness: the line of a.o from a table with a cycle between h and k is
\* complete.
C3_Witness ==
    /\ Len(OutputLines) >= 1
    /\ LineDeps(OutputLines[1]) = <<a_c, hdr_h, hdr_k>>
    /\ hdr_h \in Range(ListOf(hdr_k)) /\ hdr_k \in Range(ListOf(hdr_h))


\* The scheduler runs every thread that can take a step: weak fairness of
\* main and of each worker.  A spurious wakeup is never owed.
PoolBound == IF MaxThreads > DefaultThreads THEN MaxThreads ELSE DefaultThreads
FairSpec ==
    /\ Init /\ [][Next]_vars
    /\ WF_vars(Main)
    /\ \A w \in 1..PoolBound : WF_vars(Worker(w))

\* What a name includes on disk, and the names reachable from a set of names
\* along the quoted include lines of the files the search path resolves.
FileIncludes(n) ==
    IF openFile(n) = NULL THEN <<>> ELSE IncludesFrom(Files[openFile(n)], 1)
RECURSIVE ReachFiles(_)
ReachFiles(S) ==
    LET T == S \cup UNION {Range(FileIncludes(x)) : x \in S}
    IN  IF T = S THEN S ELSE ReachFiles(T)

\* An argument with extension c, y or l: it ends in '.' and one of the three.
LegalArg(file) ==
    /\ Len(file) >= 2
    /\ file[Len(file) - 1] = "."
    /\ file[Len(file)] \in {"c", "y", "l"}
FileArgs == {j \in (CountDashI(argv, 1) + 1)..Len(argv) : TRUE}
BadArgs == {j \in FileArgs : ~LegalArg(argv[j])}

\* The command line is legal, every file the crawl reaches resolves, and the
\* include relation among them has a cycle.
CyclicInput ==
    /\ BadArgs = {}
    /\ \A n \in ReachFiles(Range(SeededQueue)) : openFile(n) # NULL
    /\ \E n \in ReachFiles(Range(SeededQueue)) :
          n \in ReachFiles(Range(FileIncludes(n)))

\* C4: when the include relation has a cycle, under fair scheduling the
\* crawl ends (every worker retires, main passes wait_done and the joins)
\* and every printDependencies call returns: main reaches return 0.
C4_CycleTerminates ==
    (mainpc = "seed" /\ CyclicInput) ~> (mainpc = "done")

\* C4 witness: main has returned after a crawl by two workers of files whose
\* lists in theTable form a cycle.
C4_Witness ==
    /\ mainpc = "done" /\ number_of_threads = 2
    /\ hdr_h \in Range(ListOf(hdr_k)) /\ hdr_k \in Range(ListOf(hdr_h))
    /\ Len(OutputLines) = Len(SeededQueue)

\* A worker has popped a name that opens nowhere on the search path.
Unresolved(w) ==
    /\ pc[w] # "unborn" /\ filename[w] # <<>>
    /\ openFile(filename[w]) = NULL
ErrorOpening == \E e \in Range(stderr) : e[1] = "Error opening"

\* C5: when a popped name cannot be opened, nothing is on standard output
\* and the crawl is not complete; no worker scans past a failed open; and
\* once the error is reported the process has ended with a non-zero status.
C5_FatalNoOutput ==
    /\ (\E w \in Workers : Unresolved(w)) => (stdout = <<>> /\ ~CrawlDone)
    /\ \A w \in Workers : Scanning(w) => ~Unresolved(w)
    /\ ErrorOpening => (exited /\ status # 0 /\ stdout = <<>>)

\* C5 witness: the process has ended on a failed open while another worker
\* was inside a scan.
C5_Witness ==
    /\ exited /\ status = 255 /\ ErrorOpening /\ stdout = <<>>
    /\ \E w \in Workers : Scanning(w)

\* C6: when a file argument has an extension other than c, y or l, no
\* thread is created, no file is scanned, nothing is on standard output,
\* main does not seed past the first such argument, and the process ends
\* only with a non-zero status and the extension reported.
C6_IllegalExtension ==
    (BadArgs # {}) =>
        /\ threads = 0
        /\ \A w \in Workers : pc[w] = "unborn"
        /\ scanned = EmptyBag
        /\ stdout = <<>>
        /\ mainpc \in {"setup", "seed"}
        /\ i <= Least(BadArgs)
        /\ exited => /\ status # 0
                     /\ stderr = <<<<"Illegal extension",
                                     parseFile(argv[Least(BadArgs)])[2]>>>>

\* C6 witness: the process has ended on b.h, after n.y before it was seeded.
C6_Witness ==
    /\ exited /\ status = 255 /\ BadArgs # {}
    /\ n_y \in DOMAIN theTable
    /\ workQ = <<n_y>>

\* C7: the dependency list on the output line of each file argument begins
\* with that argument.
C7_SourceFirst ==
    \A n \in 1..Len(OutputLines) :
        /\ Len(LineDeps(OutputLines[n])) >= 1
        /\ LineDeps(OutputLines[n])[1] = argv[start + n - 1]

\* The search path of the file header: the current directory, the -I
\* directories, the CPATH directories; a candidate is the directory, '/',
\* and the name.
WithSlash(dir) == IF dir # <<>> /\ Last(dir) = "/" THEN dir ELSE dir \o <<"/">>
SearchDirs ==
    <<<<".">>>>
    \o [j \in 1..(start - 1) |-> SubSeq(argv[j], 3, Len(argv[j]))]
    \o (IF cpath = NULL THEN <<>> ELSE SplitCpath(cpath, 1))
Candidates(n) == [j \in 1..Len(SearchDirs) |-> WithSlash(SearchDirs[j]) \o n]
FirstThatOpens(cands) ==
    IF \E j \in 1..Len(cands) : cands[j] \in DOMAIN Files
    THEN cands[Least({j \in 1..Len(cands) : cands[j] \in DOMAIN Files})]
    ELSE NULL

\* C8: the file a worker has open for a name is the first candidate that
\* opens, in the order current directory, -I directories, CPATH directories;
\* and a name reported as not opening has no candidate that opens.
C8_SearchOrder ==
    /\ \A w \in Workers :
          Scanning(w) => fd[w].path = FirstThatOpens(Candidates(filename[w]))
    /\ \A e \in Range(stderr) :
          e[1] = "Error opening" => FirstThatOpens(Candidates(e[2])) = NULL

\* C9: at crawl completion the list of every scanned file is the sequence of
\* the names of its quoted include lines, in order, with repetitions.
C9_ListIsIncludes ==
    (number_of_threads >= 1 /\ CrawlDone) =>
        \A f \in BagToSet(scanned) : theTable[f] = FileIncludes(f)

\* The line a worker read last: the one that ends before fd.pos.
RECURSIVE LineEndingAt(_, _, _)
LineEndingAt(content, pos, end) ==
    LET buf == Fgets(content, pos)
    IN  IF buf = NULL THEN NULL
        ELSE IF pos + Len(buf) = end THEN buf
        ELSE LineEndingAt(content, pos + Len(buf), end)
LineBefore(w) == LineEndingAt(Files[fd[w].path], 1, fd[w].pos)

\* A line whose #include is followed by '<'.
AngleLine(buf) ==
    /\ MatchInclude(buf, SkipSpace(buf, 1))
    /\ CharAt(buf, SkipSpace(buf, SkipSpace(buf, 1) + 8)) = "<"

\* The worker is between the scan of a line and the end of its bs section.
HoldsName(w) ==
    pc[w] \in {"bs_wait", "append", "find", "insert", "push", "bs_signal"}

\* The names the files include in angle brackets only.
AngleNames == {<<"s">>}

\* C10: a worker never takes a name from a line with an angle-bracket
\* include, and the name of such a line is no key of theTable, in no
\* dependency list, not on workQ and not on standard output.
C10_AngleIgnored ==
    /\ \A w \in Workers : HoldsName(w) => ~AngleLine(LineBefore(w))
    /\ \A n \in AngleNames :
          /\ n \notin DOMAIN theTable
          /\ n \notin Range(workQ)
          /\ \A key \in DOMAIN theTable : n \notin Range(theTable[key])
          /\ (<<" ">> \o n) \notin Range(stdout)

\* C10 witness: a worker has read the line #include <s> of ./h and reads on.
C10_Witness ==
    \E w \in Workers :
        /\ pc[w] = "read" /\ fd[w].path = cwd \o hdr_h
        /\ fd[w].pos > 1
        /\ AngleLine(LineBefore(w))

\* The lines fgets returns from a text, from position pos on.
RECURSIVE LinesFrom(_, _)
LinesFrom(content, pos) ==
    LET buf == Fgets(content, pos)
    IN  IF buf = NULL THEN {}
        ELSE {buf} \cup LinesFrom(content, pos + Len(buf))

\* A line whose #include is followed by a double quote that nothing closes.
UnclosedLine(buf) ==
    LET p2 == SkipSpace(buf, SkipSpace(buf, 1) + 8)
    IN  /\ MatchInclude(buf, SkipSpace(buf, 1))
        /\ CharAt(buf, p2) = QUOTE
        /\ \A p \in (p2 + 1)..Len(buf) : buf[p] # QUOTE

\* The names the scan captures from the unclosed lines of the files.
UnclosedNames ==
    {ScanLine(buf) : buf \in {b \in UNION {LinesFrom(Files[f], 1) :
                                             f \in DOMAIN Files} :
                                  UnclosedLine(b)}}

\* C11: an include line with an unclosed quote is never fatal: no 'Error
\* opening' exit is for the name captured from such a line.
C11_UnclosedNotFatal ==
    \A e \in Range(stderr) :
        e[1] = "Error opening" => e[2] \notin UnclosedNames

\* The names one call of printDependencies writes, from the lists of
\* theTable alone: pending and seen are the call's own toProcess and printed.
RECURSIVE FlattenFrom(_, _)
FlattenFrom(pending, seen) ==
    IF pending = <<>> THEN <<>>
    ELSE LET new == NewNames(ListOf(Head(pending)), seen)
         IN  new \o FlattenFrom(Tail(pending) \o new, seen \cup Range(new))

\* C12: every complete output line is the flatten of theTable from its own
\* root with a fresh printed set {root} and pending sequence <<root>>,
\* whatever the lines before it printed.
C12_FreshPerTarget ==
    \A n \in 1..Len(OutputLines) :
        LET root == ObjName(argv[start + n - 1])
        IN  /\ LineRoot(OutputLines[n]) = root
            /\ LineDeps(OutputLines[n]) = FlattenFrom(<<root>>, {root})

\* C12 witness: the header m, reachable from the targets b.c and u.y, is on
\* the complete lines of both b.o and u.o.
C12_Witness ==
    /\ Len(OutputLines) = 2
    /\ LineRoot(OutputLines[1]) # LineRoot(OutputLines[2])
    /\ hdr_m \in Range(LineDeps(OutputLines[1]))
    /\ hdr_m \in Range(LineDeps(OutputLines[2]))

\* The number of times a name is a file argument.
SeedCount(x) == Cardinality({j \in start..Len(argv) : argv[j] = x})

\* C13: every name is pushed onto workQ at most once and scanned at most
\* once, and no two workers are inside a scan of the same name.
C13_AtMostOnce ==
    /\ \A x \in BagToSet(pushed) : CopiesIn(x, pushed) <= 1
    /\ \A x \in BagToSet(scanned) : CopiesIn(x, scanned) <= 1
    /\ \A w1, w2 \in Workers :
          (w1 # w2 /\ Scanning(w1) /\ Scanning(w2))
              => filename[w1] # filename[w2]

\* The worker is between its return from bs.wait() and its return from
\* bs.signal().
InSection(w) == pc[w] \in {"append", "find", "insert", "push", "bs_signal"}

\* C14: at most one worker is between bs.wait() and bs.signal(), bs.val is
\* 0 exactly while one is, and a name is pushed by the scans at most once:
\* never when it is a file argument, else once.
C14_SectionAtomic ==
    /\ Cardinality({w \in Workers : InSection(w)}) <= 1
    /\ bs = 1 - Cardinality({w \in Workers : InSection(w)})
    /\ \A x \in BagToSet(pushed) :
          CopiesIn(x, pushed) <= (IF SeedCount(x) > 0 THEN SeedCount(x) ELSE 1)

\* C14 witness: one worker has found k absent and is about to insert it
\* while another, which read k from another file, waits for bs.
C14_Witness ==
    \E w1, w2 \in Workers :
        /\ w1 # w2
        /\ pc[w1] = "insert" /\ name[w1] = hdr_k
        /\ pc[w2] = "bs_wait" /\ name[w2] = hdr_k
        /\ filename[w1] # filename[w2]
        /\ hdr_k \notin DOMAIN theTable

\* C15: every name on workQ, and every name a worker has popped, is a key of
\* theTable, so getValue(filename) in the worker loop creates no entry.
C15_QueuedIsKey ==
    /\ \A x \in Range(workQ) : x \in DOMAIN theTable
    /\ \A w \in Workers :
          pc[w] \in {"tl_signal", "lookup"} =>
              /\ filename[w] \in DOMAIN theTable
              /\ GetValue(theTable, filename[w]) = theTable

\* C15 witness: a worker is at getValue for a name a scan discovered, with
\* another discovered name on workQ.
C15_Witness ==
    \E w \in Workers :
        /\ pc[w] = "lookup" /\ filename[w] = hdr_h
        /\ workQ = <<hdr_k>>

\* q is p followed by zero or more elements.
IsPrefix(p, q) == Len(p) <= Len(q) /\ SubSeq(q, 1, Len(p)) = p

\* C16: every step keeps every key of theTable and extends each list at its
\* end only.
C16_TableGrows ==
    [][/\ DOMAIN theTable \subseteq DOMAIN theTable'
       /\ \A key \in DOMAIN theTable :
             IsPrefix(theTable[key], theTable'[key])]_vars

\* C16 witness: during the crawl the list of a.c has grown to two names and
\* the keys h and k have been added.
C16_Witness ==
    /\ ~CrawlDone
    /\ a_c \in DOMAIN theTable /\ Len(theTable[a_c]) = 2
    /\ hdr_h \in DOMAIN theTable /\ hdr_k \in DOMAIN theTable

\* C17: once the crawl is complete every name in a list, and every root
\* object name, is a key of theTable, and no step changes theTable or workQ.
C17_PrintReadOnly ==
    /\ [](CrawlDone =>
            /\ \A key \in DOMAIN theTable :
                  Range(theTable[key]) \subseteq DOMAIN theTable
            /\ \A j \in start..Len(argv) :
                  ObjName(argv[j]) \in DOMAIN theTable)
    /\ [][CrawlDone => (theTable' = theTable /\ workQ' = workQ)]_vars

\* C17 witness: main has returned after printing the line of a.o, whose
\* flatten looked up a.o, a.c, h and k.
C17_Witness ==
    /\ mainpc = "done"
    /\ Len(OutputLines) = 1
    /\ Len(LineDeps(OutputLines[1])) = 3

\* The worker is between its return from threadlock.wait() and its return
\* from threadlock.signal().
HoldsThreadlock(w) ==
    pc[w] \in {"size", "pop", "tl_signal", "tl_signal_break"}

\* The worker is in openFile or in the fgets loop outside the bs section.
InFileIO(w) == pc[w] \in {"open", "read"}

\* C18: each semaphore's val is 0 exactly while one worker is between its
\* wait and its signal, which is never while that worker opens or reads a
\* file: a semaphore that is taken while a worker is in openFile or fgets
\* is held by another worker.
C18_NoLockDuringIO ==
    /\ mainpc # "setup" =>
          /\ threadlock = 1 - Cardinality({w \in Workers : HoldsThreadlock(w)})
          /\ bs = 1 - Cardinality({w \in Workers : InSection(w)})
    /\ \A w \in Workers :
          InFileIO(w) =>
              /\ ~HoldsThreadlock(w) /\ ~InSection(w)
              /\ threadlock = 0 => \E v \in Workers \ {w} : HoldsThreadlock(v)
              /\ bs = 0 => \E v \in Workers \ {w} : InSection(v)

\* C18 witness: a worker reads h, past its first line, while another holds
\* bs and both semaphores have been through a wait and a signal.
C18_Witness ==
    \E w, v \in Workers :
        /\ pc[w] = "read" /\ fd[w].path = cwd \o hdr_h /\ fd[w].pos > 1
        /\ InSection(v) /\ bs = 0 /\ threadlock = 1

\* C19: a worker at pop_front finds workQ non-empty, and the process never
\* ends on the NULL that pop_front returns from an empty queue.
C19_PopNonEmpty ==
    /\ \A w \in Workers : pc[w] = "pop" => workQ # <<>>
    /\ ~(exited /\ status = 134)

\* C19 witness: a worker is at pop_front for the only name on workQ while
\* another is blocked in threadlock.wait().
C19_Witness ==
    \E w, v \in Workers :
        /\ pc[w] = "pop" /\ Len(workQ) = 1
        /\ pc[v] = "tl_wait" /\ v \in waiting

\* The worker has seen workQ empty and left the loop, or has returned.
Retired(w) == pc[w] \in {"tl_signal_break", "signal_done", "finished"}

\* The worker has popped a name and has not yet finished its scan.
MidScan(w) == pc[w] \in {"tl_signal", "lookup", "open"} \/ Scanning(w)

\* C20: with a pool of N >= 1 workers, while workQ is non-empty or a worker
\* is mid-scan some worker has not retired.
C20_SomeoneTakesIt ==
    (number_of_threads >= 1
       /\ (workQ # <<>> \/ \E w \in Workers : MidScan(w)))
        => \E w \in Workers : ~Retired(w)

\* C20 witness: one worker has retired on an empty queue while another,
\* mid-scan, has pushed a name that is still on workQ.
C20_Witness ==
    \E w, v \in Workers :
        /\ pc[w] = "finished"
        /\ Scanning(v) /\ workQ # <<>>

====
